---- MODULE Spec2Model ----
(***************************************************************************)
(* A model of the stringwrap package (src/stringwrap.go, the version that  *)
(* starts at line 314): the single-pass wrapping state machine behind      *)
(* StringWrap and StringWrapSplit.                                         *)
(*                                                                         *)
(* A string is a sequence of tokens.  Every token stands for one piece of  *)
(* text that the scanner handles as a unit:                                *)
(*   "a"    a letter of display width 1, one byte      (wordy)             *)
(*   "."    a punctuation mark of width 1, one byte    (not wordy)         *)
(*   "W"    a wide letter such as U+4E16, width 2, three bytes (wordy)     *)
(*   "Z"    U+200B, a cluster of width 0, three bytes  (not wordy)         *)
(*   "SP"   the space, "TAB" the tab, "NL" the newline, "CR" the carriage  *)
(*          return, "NBSP" the non-breaking space U+00A0 (two bytes)       *)
(*   "ESC"  the ANSI CSI sequence ESC [ m : three bytes, three runes, no   *)
(*          column on a terminal, but go-runewidth counts "[" and "m"      *)
(*   "HY"   the hyphen the split writes (output only)                      *)
(* The input is revealed to the scan loop one loop iteration at a time:    *)
(* str is the part of the input consumed so far.  Inputs that end in an    *)
(* ANSI sequence are left out: what ansiwalker.ANSIWalk returns when no    *)
(* rune follows the sequence is not part of this repository.               *)
(***************************************************************************)
EXTENDS Integers, Sequences, FiniteSets, TLC

VARIABLES str, limit, tabSize, trimWhitespace, splitWord, sm, pc, ret

vars == <<str, limit, tabSize, trimWhitespace, splitWord, sm, pc, ret>>

\* ------------------------------------------------------------------ bounds
\* Longest input, in tokens.
MaxLen == 4
\* Largest wrapping limit tried.
MaxLimit == 3
\* Largest tab size tried.
MaxTabSize == 2
\* Longest run of adjacent ANSI sequences in the input.
MaxAnsiRun == 1
\* Depth of nested flushWordBuffer calls at which the goroutine stack is
\* taken to be exhausted (a call that returns nests at most MaxLen + 2 deep).
MaxDepth == 8

\* ------------------------------------------------------------------ tokens
\* The runes and clusters an input is made of, an ANSI sequence apart
Clusters == {"a", ".", "W"}
Whitespace == {"SP", "TAB", "NL"}
Alphabet == Clusters \cup Whitespace \cup {"NBSP"}
\* For the calls of StringWrapSplit: the cluster of width 0 as well, and no
\* non-breaking space, which switches the split off
SplitAlphabet == Clusters \cup {"Z"} \cup Whitespace

\* unicode.IsSpace
IsSpace(t) == t \in {"SP", "TAB", "NL", "CR", "NBSP"}

\* runewidth.StringWidth of one token
RuneWidth(t) ==
  CASE t = "W" -> 2
    [] t \in {"Z", "TAB", "NL", "CR"} -> 0
    [] t = "ESC" -> 2
    [] OTHER -> 1

\* The columns a token takes on a terminal: an ANSI sequence takes none.
DisplayWidth(t) == IF t = "ESC" THEN 0 ELSE RuneWidth(t)

\* len(): bytes of the UTF-8 encoding
ByteLen(t) ==
  CASE t \in {"W", "Z", "ESC"} -> 3
    [] t = "NBSP" -> 2
    [] OTHER -> 1

\* utf8.RuneCountInString
RuneLen(t) == IF t = "ESC" THEN 3 ELSE 1

\* runewidth.StringWidth
RECURSIVE StringWidth(_)
StringWidth(s) ==
  IF s = <<>> THEN 0 ELSE RuneWidth(Head(s)) + StringWidth(Tail(s))

\* The columns a string takes on a terminal
RECURSIVE StringDisplayWidth(_)
StringDisplayWidth(s) ==
  IF s = <<>> THEN 0 ELSE DisplayWidth(Head(s)) + StringDisplayWidth(Tail(s))

\* len(s)
RECURSIVE StringByteLen(_)
StringByteLen(s) ==
  IF s = <<>> THEN 0 ELSE ByteLen(Head(s)) + StringByteLen(Tail(s))

\* utf8.RuneCountInString(s)
RECURSIVE StringRuneLen(_)
StringRuneLen(s) ==
  IF s = <<>> THEN 0 ELSE RuneLen(Head(s)) + StringRuneLen(Tail(s))

\* isWordyGrapheme: the empty string decodes to utf8.RuneError, no letter
isWordyGrapheme(g) == g \in {"a", "W"}

btoi(b) == IF b THEN 1 ELSE 0

\* strings.TrimRightFunc(line, unicode.IsSpace)
RECURSIVE TrimRightSpace(_)
TrimRightSpace(s) ==
  IF s # <<>> /\ IsSpace(s[Len(s)])
  THEN TrimRightSpace(SubSeq(s, 1, Len(s) - 1))
  ELSE s

\* strings.Repeat(tok, n)
Repeat(tok, n) == [i \in 1..n |-> tok]

\* --------------------------------------------------------- state machine
\* wordWrapConfig
Config(l, t, trim, split) ==
  [limit |-> l, tabSize |-> t, trimWhitespace |-> trim, splitWord |-> split]

\* wrapStateMachine, its positions and its WrappedStringSeq, as constructed
\* by stringWrap; overflow records that the goroutine stack was exhausted.
NewStateMachine ==
  [lineBuffer |-> <<>>, wordBuffer |-> <<>>, buffer |-> <<>>,
   curLineWidth |-> 0, curLineNum |-> 1, origLineNum |-> 1,
   curWordWidth |-> 0, origLineSegment |-> 0,
   origStartLineByte |-> 0, origStartLineRune |-> 0,
   timmedWhiteSpace |-> 0,
   WrappedLines |-> <<>>, wordHasNbsp |-> FALSE, overflow |-> FALSE]

\* endCalc without the start of the line: an End relative to the line
endCalcRelative(p, count, lineCount, hardBreak) ==
  (lineCount - 1 + btoi(hardBreak)) + p.timmedWhiteSpace

\* positions.endCalc
endCalc(p, count, lineCount, hardBreak) ==
  (count + lineCount - 1 + btoi(hardBreak)) + p.timmedWhiteSpace

\* writeLine, trimWhitespace set: the line is right-trimmed and its width
\* measured again with runewidth.StringWidth
trimLineTo(w, trimmed) ==
  [w EXCEPT !.timmedWhiteSpace = @ + (w.curLineWidth - StringWidth(trimmed)),
            !.curLineWidth = StringWidth(trimmed),
            !.lineBuffer = trimmed]

\* writeLine: the line as it is written, with its width
trimLine(w, c) ==
  IF c.trimWhitespace THEN trimLineTo(w, TrimRightSpace(w.lineBuffer)) ELSE w

\* writeLine, from the write to the buffer on: the record of the line is
\* appended and the positions move to the next line
appendLine(w, c, hardBreak, endsSplit) ==
  LET newLine == w.lineBuffer \o <<"NL">>
      origEndLineByte == endCalc(w, w.origStartLineByte,
                                 StringByteLen(newLine), hardBreak)
      origEndLineRune == endCalc(w, w.origStartLineRune,
                                 StringRuneLen(newLine), hardBreak)
      wrappedString ==
        [OrigLineNum |-> w.origLineNum,
         CurLineNum |-> w.curLineNum,
         OrigByteOffset |-> [Start |-> w.origStartLineByte, End |-> origEndLineByte],
         OrigRuneOffset |-> [Start |-> w.origStartLineRune, End |-> origEndLineRune],
         SegmentInOrig |-> w.origLineSegment + 1,
         LastSegmentInOrig |-> hardBreak,
         NotWithinLimit |-> w.curLineWidth > c.limit,
         IsHardBreak |-> hardBreak,
         Width |-> w.curLineWidth,
         EndsWithSplitWord |-> endsSplit]
  IN [w EXCEPT !.buffer = @ \o newLine,
               !.origLineSegment = @ + 1,
               !.lineBuffer = <<>>,
               !.WrappedLines = Append(@, wrappedString),
               !.curLineNum = @ + 1,
               !.origStartLineByte = origEndLineByte,
               !.origStartLineRune = origEndLineRune,
               !.curLineWidth = 0,
               !.timmedWhiteSpace = 0]

\* wrapStateMachine.writeLine
writeLine(w, c, hardBreak, endsSplit) ==
  appendLine(trimLine(w, c), c, hardBreak, endsSplit)

\* writeHardLine that writes a soft line: the newline leaves no hard break
writeHardLineAsSoft(w, c) == writeLine(w, c, FALSE, FALSE)

\* wrapStateMachine.writeHardLine
writeHardLine(w, c) == writeLine(w, c, TRUE, FALSE)

\* wrapStateMachine.writeSoftLine
writeSoftLine(w, c, endsSplit) == writeLine(w, c, FALSE, endsSplit)

\* flushLineBuffer without its soft break: the line is never ended
keepLineBuffer(w, c, length) == w

\* wrapStateMachine.flushLineBuffer
flushLineBuffer(w, c, length) ==
  IF w.curLineWidth + length > c.limit THEN writeSoftLine(w, c, FALSE) ELSE w

\* wrapStateMachine.writeANSIToLine
writeANSIToLine(w, s) == [w EXCEPT !.lineBuffer = @ \o s]

\* writeSpaceToLine that writes the space without counting its column
appendSpaceNoWidth(w, c, r) ==
  IF ~c.trimWhitespace \/ w.curLineWidth > 0
  THEN [w EXCEPT !.lineBuffer = Append(@, r)]
  ELSE [w EXCEPT !.timmedWhiteSpace = @ + 1]

\* writeSpaceToLine after its flushLineBuffer
appendSpace(w, c, r) ==
  IF ~c.trimWhitespace \/ w.curLineWidth > 0
  THEN [w EXCEPT !.lineBuffer = Append(@, r), !.curLineWidth = @ + 1]
  ELSE [w EXCEPT !.timmedWhiteSpace = @ + 1]

\* wrapStateMachine.writeSpaceToLine
writeSpaceToLine(w, c, r) == appendSpace(flushLineBuffer(w, c, 1), c, r)

\* writeTabToLine that never drops a tab: on an empty line the tab is
\* tabSize spaces, trimming or not
expandTabKept(w, c, adj0) ==
  [w |-> [w EXCEPT !.lineBuffer =
            @ \o Repeat("SP", IF Len(w.lineBuffer) = 0 THEN c.tabSize ELSE adj0)],
   adjTabSize |-> IF Len(w.lineBuffer) = 0 THEN c.tabSize ELSE adj0]

\* writeTabToLine after its flushLineBuffer: the machine after the call
\* and the width the call returns
expandTab(w, c, adj0) ==
  LET empty == Len(w.lineBuffer) = 0
      adjTabSize == IF empty
                    THEN (IF c.trimWhitespace THEN 0 ELSE c.tabSize)
                    ELSE adj0
  IN [w |-> [w EXCEPT !.timmedWhiteSpace =
                                   IF empty /\ c.trimWhitespace THEN @ + 1 ELSE @,
                      !.lineBuffer = @ \o Repeat("SP", adjTabSize)],
      adjTabSize |-> adjTabSize]

\* A tab as a fixed run of tabSize spaces, whatever the column
tabStopFull(lineWidth, c) == c.tabSize

\* The distance from a line width to the next tab stop
tabStop(lineWidth, c) == c.tabSize - (lineWidth % c.tabSize)

\* wrapStateMachine.writeTabToLine
writeTabToLine(w, c) ==
  expandTab(flushLineBuffer(w, c, tabStop(w.curLineWidth, c)), c,
            tabStop(w.curLineWidth, c))

\* wrapStateMachine.writeStrToWord / writeRuneToWord
writeStrToWord(w, s) == [w EXCEPT !.wordBuffer = Append(@, s)]

\* wrapStateMachine.writeWord
writeWord(w) ==
  [w EXCEPT !.lineBuffer = @ \o w.wordBuffer,
            !.wordBuffer = <<>>,
            !.curLineWidth = @ + w.curWordWidth,
            !.curWordWidth = 0]

\* graphemeWordIter over the clusters of word, before the first Next()
NewGraphemeWordIter ==
  [subWordBuffer |-> <<>>, subWordWidth |-> 0,
   preLimitCluster |-> "", cluster |-> ""]

\* The loop of iter with <= for <: the prefix may fill the limit
withinLimitOrAt(subWordWidth, lineWidth, lim) == subWordWidth + lineWidth <= lim

\* The second test of the loop of graphemeWordIter.iter
withinLimit(subWordWidth, lineWidth, lim) == subWordWidth + lineWidth < lim

\* graphemeWordIter.iter: i is the cluster graphemes.Next() moves to
RECURSIVE iterFrom(_, _, _, _, _)
iterFrom(g, word, i, lineWidth, lim) ==
  IF i <= Len(word) /\ withinLimit(g.subWordWidth, lineWidth, lim)
  THEN iterFrom([preLimitCluster |-> g.cluster,
                 cluster |-> word[i],
                 subWordWidth |-> g.subWordWidth + RuneWidth(word[i]),
                 subWordBuffer |-> IF g.cluster = "" THEN g.subWordBuffer
                                   ELSE Append(g.subWordBuffer, g.cluster)],
                word, i + 1, lineWidth, lim)
  ELSE g

iter(word, lineWidth, lim) == iterFrom(NewGraphemeWordIter, word, 1, lineWidth, lim)

\* needsHyphen that looks at the cluster kept only
needsHyphenAfterWordy(g) == isWordyGrapheme(g.preLimitCluster)

\* graphemeWordIter.needsHyphen
needsHyphen(g) == isWordyGrapheme(g.cluster) /\ isWordyGrapheme(g.preLimitCluster)

\* The test of flushWordBuffer that sends a word to the split sub-algorithm
splitsWord(w, c) == c.splitWord /\ ~w.wordHasNbsp

\* curWritePosition one column too far
curWritePositionPastEnd(w) == w.curWordWidth + w.curLineWidth + 1

\* positions.curWritePosition
curWritePosition(w) == w.curWordWidth + w.curLineWidth

\* exceedsLimit with >= for >: a word that just fits counts as too wide
exceedsLimitOrAt(w, c) == curWritePosition(w) >= c.limit

\* exceedsLimit of flushWordBuffer
exceedsLimit(w, c) == curWritePosition(w) > c.limit

\* flushWordBuffer, split: the prefix gIter kept, and the hyphen, go to the
\* line buffer
writeSubWord(w, gIter) ==
  [w EXCEPT !.lineBuffer = @ \o gIter.subWordBuffer
                             \o (IF needsHyphen(gIter) THEN <<"HY">> ELSE <<>>),
            !.curLineWidth = @ + gIter.subWordWidth]

\* wordBuffer.Next that drops one cluster more than was written
dropSubWordAndNext(w, n) ==
  [w EXCEPT !.wordBuffer = SubSeq(@, n + 2, Len(@)),
            !.curWordWidth = StringWidth(SubSeq(w.wordBuffer, n + 2,
                                                Len(w.wordBuffer)))]

\* flushWordBuffer, split: wordBuffer.Next(n) drops the n clusters written
\* and the width of the rest is measured
dropSubWord(w, n) ==
  [w EXCEPT !.wordBuffer = SubSeq(@, n + 1, Len(@)),
            !.curWordWidth = StringWidth(SubSeq(w.wordBuffer, n + 1,
                                                Len(w.wordBuffer)))]

\* flushWordBuffer, split: one pass, up to the recursive call
splitPass(w, c, gIter) ==
  dropSubWord(writeSoftLine(writeSubWord(w, gIter), c, needsHyphen(gIter)),
              Len(gIter.subWordBuffer))

\* wrapStateMachine.flushWordBuffer, depth calls deep in its own recursion
RECURSIVE flushWordBufferAt(_, _, _)
flushWordBufferAt(w, c, depth) ==
  IF depth > MaxDepth THEN [w EXCEPT !.overflow = TRUE]
     ELSE IF exceedsLimit(w, c) /\ w.curWordWidth = 0 THEN writeSoftLine(w, c, FALSE)
     ELSE IF exceedsLimit(w, c) THEN
       IF splitsWord(w, c)
       THEN [flushWordBufferAt(
               splitPass(w, c, iter(w.wordBuffer, w.curLineWidth, c.limit)),
               c, depth + 1)
             EXCEPT !.wordHasNbsp = FALSE]
       ELSE [writeWord(IF w.curLineWidth > 0 THEN writeSoftLine(w, c, FALSE)
                       ELSE w)
             EXCEPT !.wordHasNbsp = FALSE]
     ELSE [writeWord(w) EXCEPT !.wordHasNbsp = FALSE]

flushWordBuffer(w, c) == flushWordBufferAt(w, c, 0)

\* The guard with 1 for 2: a limit of 1 is let through
invalidLimitBelowOne(l) == l < 1

\* The guard of stringWrap on its limit
invalidLimit(l) == l < 2

\* The scan loop after the flush that an ANSI sequence causes: the sequence
\* goes to the line buffer
writeANSIAfterFlush(f, ansi) ==
  IF f.overflow THEN f ELSE writeANSIToLine(f, ansi)

\* The scan loop on ansi, a possibly empty run of ANSI sequences
scanANSI(w, c, ansi) ==
  IF ansi # <<>> THEN writeANSIAfterFlush(flushWordBuffer(w, c), ansi) ELSE w

\* The tab branch of the scan loop: the width writeTabToLine returns is
\* added to the line width
addTabWidth(t) == [t.w EXCEPT !.curLineWidth = @ + t.adjTabSize]

\* The whitespace branch without the reset of origLineSegment at a newline
scanSpaceKeepSegment(f, c, r) ==
  IF f.overflow THEN f
  ELSE CASE r = "SP" -> writeSpaceToLine(f, c, r)
         [] r = "NL" -> [writeHardLine(f, c) EXCEPT !.origLineNum = @ + 1]
         [] r = "TAB" -> addTabWidth(writeTabToLine(f, c))
         [] OTHER -> f

\* The whitespace branch of the scan loop, after its flushWordBuffer
scanSpace(f, c, r) ==
  IF f.overflow THEN f
  ELSE CASE r = "SP" -> writeSpaceToLine(f, c, r)
         [] r = "NL" -> [writeHardLine(f, c) EXCEPT !.origLineNum = @ + 1,
                                                    !.origLineSegment = 0]
         [] r = "TAB" -> addTabWidth(writeTabToLine(f, c))
         [] OTHER -> f

\* The scan loop with legacy whitespace handled as a space
scanRuneLegacyAsSpace(w, c, r) ==
  IF w.overflow THEN w
  ELSE IF r = "NBSP"
  THEN [writeStrToWord(w, r) EXCEPT !.wordHasNbsp = TRUE,
                                    !.curWordWidth = @ + 1]
  ELSE IF IsSpace(r)
  THEN scanSpace(flushWordBuffer(w, c), c, IF r = "CR" THEN "SP" ELSE r)
  ELSE [writeStrToWord(w, r) EXCEPT !.curWordWidth = @ + RuneWidth(r)]

\* The scan loop on the rune r
scanRune(w, c, r) ==
  IF w.overflow THEN w
  ELSE IF r = "NBSP"
  THEN [writeStrToWord(w, r) EXCEPT !.wordHasNbsp = TRUE,
                                    !.curWordWidth = @ + 1]
  ELSE IF IsSpace(r) THEN scanSpace(flushWordBuffer(w, c), c, r)
  ELSE [writeStrToWord(w, r) EXCEPT !.curWordWidth = @ + RuneWidth(r)]

\* One iteration of the scan loop of stringWrap: ansiwalker.ANSIWalk skips
\* ansi (a possibly empty run of ANSI sequences) and yields the rune r.
scanStep(w, c, ansi, r) == scanRune(scanANSI(w, c, ansi), c, r)

\* The end of stringWrap: the line buffer is flushed after the word buffer
flushLastLine(f, c) ==
  IF ~f.overflow /\ Len(f.lineBuffer) > 0 THEN writeSoftLine(f, c, FALSE) ELSE f

\* The end of stringWrap without the mark on the last record
trimLastNewlineOnly(w) ==
  IF w.overflow \/ Len(w.WrappedLines) = 0 THEN w
  ELSE IF ~w.WrappedLines[Len(w.WrappedLines)].IsHardBreak
  THEN [w EXCEPT !.buffer = SubSeq(@, 1, Len(@) - 1)]
  ELSE w

\* The end of stringWrap: the last newline is removed and the last record
\* marked, unless the last line is a hard break.  With no record,
\* lastWrappedLine indexes an empty slice and the call panics.
trimLastNewline(w) ==
  IF w.overflow \/ Len(w.WrappedLines) = 0 THEN w
  ELSE IF ~w.WrappedLines[Len(w.WrappedLines)].IsHardBreak
  THEN [w EXCEPT !.buffer = SubSeq(@, 1, Len(@) - 1),
                 !.WrappedLines[Len(w.WrappedLines)].LastSegmentInOrig = TRUE]
  ELSE w

\* The end of stringWrap, after the loop
finish(w, c) == trimLastNewline(flushLastLine(flushWordBuffer(w, c), c))

\* How a call ends and what it returns: the text, the sequence (nil on an
\* error) with the configuration it carries, and the error.
Outcome(w, c) ==
  IF w.overflow THEN "stackoverflow"
  ELSE IF Len(w.WrappedLines) = 0 THEN "panic"
  ELSE "returned"

NoReturn ==
  [text |-> <<>>, seqNil |-> TRUE, WrappedLines |-> <<>>,
   WordSplitAllowed |-> FALSE, TabSize |-> 0, Limit |-> 0, err |-> FALSE]

ErrorReturn == [NoReturn EXCEPT !.err = TRUE]

Return(w, c) ==
  [text |-> w.buffer, seqNil |-> FALSE, WrappedLines |-> w.WrappedLines,
   WordSplitAllowed |-> c.splitWord, TabSize |-> c.tabSize, Limit |-> c.limit,
   err |-> FALSE]

\* The ANSI sequences at the head of s, which ANSIWalk skips
RECURSIVE ansiRun(_)
ansiRun(s) ==
  IF s # <<>> /\ Head(s) = "ESC" THEN <<"ESC">> \o ansiRun(Tail(s)) ELSE <<>>

\* The scan loop of stringWrap over the whole of s (s does not end in an
\* ANSI sequence)
RECURSIVE scanLoop(_, _, _)
scanLoop(w, c, s) ==
  IF s = <<>> \/ w.overflow THEN w
  ELSE LET ansi == ansiRun(s)
           k == Len(ansi)
       IN scanLoop(scanStep(w, c, ansi, s[k + 1]), c, SubSeq(s, k + 2, Len(s)))

\* What a call whose machine ends as w hands back
callResult(w, c) ==
  [outcome |-> Outcome(w, c),
   ret |-> IF Outcome(w, c) = "returned" THEN Return(w, c) ELSE NoReturn]

\* stringWrap on a valid limit, under the configuration c
wrapWith(s, c) == callResult(finish(scanLoop(NewStateMachine, c, s), c), c)

\* stringWrap as a function of its arguments: how the call ends and what it
\* returns
stringWrap(s, l, t, trim, split) ==
  IF invalidLimit(l) THEN [outcome |-> "returned", ret |-> ErrorReturn]
  ELSE wrapWith(s, Config(l, t, trim, split))

\* StringWrap and StringWrapSplit
StringWrap(s, l, t, trim) == stringWrap(s, l, t, trim, FALSE)
StringWrapSplit(s, l, t, trim) == stringWrap(s, l, t, trim, TRUE)

cfg == Config(limit, tabSize, trimWhitespace, splitWord)

\* ----------------------------------------------------------------- actions
\* A call of StringWrap (splitWord = FALSE) or StringWrapSplit (TRUE)
Init ==
  /\ str = <<>>
  /\ limit \in (0 - 1)..MaxLimit
  /\ tabSize \in 1..MaxTabSize
  /\ trimWhitespace \in BOOLEAN
  /\ splitWord \in BOOLEAN
  /\ sm = NewStateMachine
  /\ pc = "call"
  /\ ret = NoReturn

\* stringWrap, limit < 2: the error return
Reject ==
  /\ pc = "call"
  /\ invalidLimit(limit)
  /\ pc' = "returned"
  /\ ret' = ErrorReturn
  /\ UNCHANGED <<str, limit, tabSize, trimWhitespace, splitWord, sm>>

\* stringWrap, limit >= 2: the state machine is built and the loop entered
Enter ==
  /\ pc = "call"
  /\ ~invalidLimit(limit)
  /\ pc' = "scan"
  /\ UNCHANGED <<str, limit, tabSize, trimWhitespace, splitWord, sm, ret>>

\* One iteration of the loop, on the next rune of the input, drawn from A,
\* and the ANSI sequences before it.
Scan(A) ==
  /\ pc = "scan"
  /\ \E k \in 0..MaxAnsiRun, r \in A :
       /\ Len(str) + k + 1 <= MaxLen
       /\ str' = str \o Repeat("ESC", k) \o <<r>>
       /\ sm' = scanStep(sm, cfg, Repeat("ESC", k), r)
       /\ pc' = IF sm'.overflow THEN "stackoverflow" ELSE "scan"
  /\ UNCHANGED <<limit, tabSize, trimWhitespace, splitWord, ret>>

\* The input ends: the loop is left, the buffers are flushed and the call
\* returns, or panics on an empty sequence of records.
Finish ==
  /\ pc = "scan"
  /\ sm' = finish(sm, cfg)
  /\ pc' = Outcome(sm', cfg)
  /\ ret' = IF pc' = "returned" THEN Return(sm', cfg) ELSE ret
  /\ UNCHANGED <<str, limit, tabSize, trimWhitespace, splitWord>>

Next == Reject \/ Enter \/ Scan(Alphabet) \/ Finish

Spec == Init /\ [][Next]_vars

\* The calls of StringWrapSplit, on the inputs over SplitAlphabet
InitSplit == Init /\ splitWord

NextSplit == Reject \/ Enter \/ Scan(SplitAlphabet) \/ Finish

SpecSplit == InitSplit /\ [][NextSplit]_vars

\* The calls of StringWrap: splitting disabled
InitNoSplit == Init /\ ~splitWord

SpecNoSplit == InitNoSplit /\ [][Next]_vars

\* The calls with trimWhitespace = false, in both modes
InitKeep == Init /\ ~trimWhitespace

SpecKeep == InitKeep /\ [][Next]_vars

\* The calls with trimWhitespace = true, in both modes
InitTrim == Init /\ trimWhitespace

SpecTrim == InitTrim /\ [][Next]_vars

\* The calls with a tab size above every limit: tabSize is not validated
InitWideTab ==
  /\ str = <<>>
  /\ limit \in (0 - 1)..MaxLimit
  /\ tabSize = MaxLimit + 1
  /\ trimWhitespace \in BOOLEAN
  /\ splitWord \in BOOLEAN
  /\ sm = NewStateMachine
  /\ pc = "call"
  /\ ret = NoReturn

SpecWideTab == InitWideTab /\ [][Next]_vars

\* The inputs with legacy whitespace: unicode.IsSpace holds of the carriage
\* return, and the switch of the scan loop has no case for it
LegacyAlphabet == Clusters \cup Whitespace \cup {"CR"}

NextLegacy == Reject \/ Enter \/ Scan(LegacyAlphabet) \/ Finish

SpecLegacy == Init /\ [][NextLegacy]_vars

\* ------------------------------------------------------------------ claims
\* strings.Split(s, sep) on one separator token, as the tests split the
\* returned text on the newline
RECURSIVE Split(_, _)
Split(s, sep) ==
  IF \A i \in 1..Len(s) : s[i] # sep THEN <<s>>
  ELSE LET i == CHOOSE i \in 1..Len(s) :
                  s[i] = sep /\ \A j \in 1..(i - 1) : s[j] # sep
       IN <<SubSeq(s, 1, i - 1)>> \o Split(SubSeq(s, i + 1, Len(s)), sep)

\* The lines of a returned text
Lines(text) == Split(text, "NL")

\* The number of tokens of s that are tok
Count(s, tok) == Cardinality({i \in 1..Len(s) : s[i] = tok})

\* The tokens that end a word: the whitespace other than U+00A0
EndsWord(t) == t \in {"SP", "TAB", "NL", "CR"}

\* The words of an input: its maximal runs of tokens that end no word, each
\* as the pair of its first and last position
WordSpans(s) ==
  {<<i, j>> \in (1..Len(s)) \X (1..Len(s)) :
     /\ i <= j
     /\ \A k \in i..j : ~EndsWord(s[k])
     /\ (i = 1 \/ EndsWord(s[i - 1]))
     /\ (j = Len(s) \/ EndsWord(s[j + 1]))}

Words(s) == {SubSeq(s, sp[1], sp[2]) : sp \in WordSpans(s)}

\* Every word of the input is at most lim columns wide
WordsFit(s, lim) == \A w \in Words(s) : StringDisplayWidth(w) <= lim

\* A call with a valid limit has returned its text and its records
Returned == pc = "returned" /\ ~ret.err

\* C1: with StringWrap, when every word of the input and the tab size are at
\* most limit wide, every line of the returned text is at most limit columns
\* wide (an ANSI sequence taking none) and every record has NotWithinLimit
\* false and Width <= limit.
C1_NoSplitWithinLimit ==
  (Returned /\ ~splitWord /\ tabSize <= limit /\ WordsFit(str, limit)) =>
    /\ LET lines == Lines(ret.text)
       IN \A i \in DOMAIN lines : StringDisplayWidth(lines[i]) <= limit
    /\ \A i \in DOMAIN ret.WrappedLines :
         /\ ~ret.WrappedLines[i].NotWithinLimit
         /\ ret.WrappedLines[i].Width <= limit

\* C2: with StringWrapSplit, a tab size of at most limit and no non-breaking
\* space in the input, every line of the returned text, the hyphen of a split
\* included, is at most limit columns wide.
C2_SplitWithinLimit ==
  (Returned /\ splitWord /\ tabSize <= limit /\ Count(str, "NBSP") = 0) =>
    LET lines == Lines(ret.text)
    IN \A i \in DOMAIN lines : StringDisplayWidth(lines[i]) <= limit

\* A split wrote a hyphen at the end of a line that fills the limit.
C2_Witness ==
  /\ Returned /\ splitWord /\ tabSize <= limit /\ Count(str, "NBSP") = 0
  /\ LET lines == Lines(ret.text)
     IN \E i \in DOMAIN ret.WrappedLines :
          /\ ret.WrappedLines[i].EndsWithSplitWord
          /\ lines[i][Len(lines[i])] = "HY"
          /\ StringDisplayWidth(lines[i]) = limit

\* C3: with splitting enabled and limit >= 2 the recursive flush of the word
\* buffer terminates: the stack of the flush is never exhausted.
C3_FlushTerminates ==
  (splitWord /\ limit >= 2) => pc # "stackoverflow"

\* C4: with limit >= 2 and tabSize >= 1 a call completes normally, whatever
\* the text: it neither panics on the last record nor exhausts the stack.
C4_CompletesNormally ==
  (limit >= 2 /\ tabSize >= 1) => pc \in {"call", "scan", "returned"}

\* C5: the number of records is the number of newlines of the returned text
\* plus one.
C5_OneRecordPerLine ==
  Returned => Len(ret.WrappedLines) = Count(ret.text, "NL") + 1

\* C6: a limit below 2 gives the error, the empty text and a nil sequence
\* before any token is processed; a limit of 2 or more never gives an error.
C6_InvalidLimit ==
  /\ limit < 2 =>
       /\ pc \in {"call", "returned"}
       /\ str = <<>> /\ sm = NewStateMachine
       /\ pc = "returned" => (ret.err /\ ret.text = <<>> /\ ret.seqNil)
  /\ limit >= 2 => ~ret.err

\* A call with limit 1 has returned the error.
C6_Witness == pc = "returned" /\ limit = 1 /\ ret.err /\ ret.seqNil

\* A text without its ANSI sequences
StripANSI(s) == SelectSeq(s, LAMBDA t : t # "ESC")

\* The call of the current state on the input without its ANSI sequences
StrippedCall ==
  stringWrap(StripANSI(str), limit, tabSize, trimWhitespace, splitWord)

\* C7: ANSI sequences do not influence wrapping: the returned text without
\* its ANSI sequences is the text returned for the input without its ANSI
\* sequences (stated for the inputs whose stripped form returns a text).
C7_AnsiTransparent ==
  (Returned /\ StrippedCall.outcome = "returned") =>
    StripANSI(ret.text) = StrippedCall.ret.text

\* C8: the Width of every record is the display width of its line of the
\* returned text, an ANSI sequence taking no column.
C8_WidthIsDisplayWidth ==
  Returned =>
    LET lines == Lines(ret.text)
    IN \A i \in DOMAIN ret.WrappedLines :
         ret.WrappedLines[i].Width = StringDisplayWidth(lines[i])

\* word occurs in line as a run of adjacent tokens
OccursIn(word, line) ==
  \E o \in 0..(Len(line) - Len(word)) :
    SubSeq(line, o + 1, o + Len(word)) = word

\* C9: StringWrap never divides a word: every word of the input is whole on
\* one line of the returned text and no record has EndsWithSplitWord (stated
\* for the inputs without non-breaking space).
C9_NoSplitKeepsWords ==
  (Returned /\ ~splitWord /\ Count(str, "NBSP") = 0) =>
    /\ LET lines == Lines(ret.text)
       IN \A w \in Words(str) : \E i \in DOMAIN lines : OccursIn(w, lines[i])
    /\ \A i \in DOMAIN ret.WrappedLines : ~ret.WrappedLines[i].EndsWithSplitWord

\* The call of StringWrap on the input and configuration of the current state
NoSplitCall == StringWrap(str, limit, tabSize, trimWhitespace)

\* StringWrapSplit has returned what StringWrap returns, but for the flag
SameAsNoSplit ==
  LET o == NoSplitCall
  IN /\ o.outcome = "returned"
     /\ ret = [o.ret EXCEPT !.WordSplitAllowed = TRUE]

RECURSIVE ExpandedWidth(_, _, _)
ExpandedWidth(line, col, t) ==
  IF line = <<>> THEN col
  ELSE ExpandedWidth(Tail(line),
                     IF Head(line) = "TAB" THEN col + (t - (col % t))
                     ELSE col + DisplayWidth(Head(line)),
                     t)

\* Every newline-delimited line of the input is at most lim columns wide
LinesFit(s, lim, t) ==
  LET lines == Lines(s)
  IN \A i \in DOMAIN lines : ExpandedWidth(lines[i], 0, t) <= lim

NbspWords(s) == {w \in Words(s) : Count(w, "NBSP") > 0}

\* C11: with StringWrapSplit, every word of the input that holds a
\* non-breaking space is whole, non-breaking spaces included, on one line of
\* the returned text: it is not split, not hyphenated, and no line ends next
\* to its non-breaking space (stated for the inputs without ANSI sequences,
\* with trimWhitespace true or false).
C11_NbspWordsWhole ==
  (Returned /\ splitWord /\ Count(str, "ESC") = 0) =>
    LET lines == Lines(ret.text)
    IN \A w \in NbspWords(str) : \E i \in DOMAIN lines : OccursIn(w, lines[i])

\* Nothing of the input is trimmed away: trimWhitespace is off, or the input
\* holds no space, tab or non-breaking space
WholeInputEmitted ==
  ~trimWhitespace \/ \A i \in 1..Len(str) : str[i] \notin {"SP", "TAB", "NBSP"}

\* C12: the offsets of the records are positions in the input: no End is
\* beyond the length of the input, in bytes and in runes, and when the whole
\* input is emitted the End of the last record is the length of the input.
C12_OffsetsInInput ==
  Returned =>
    LET n == Len(ret.WrappedLines)
        bytes == StringByteLen(str)
        runes == StringRuneLen(str)
    IN /\ \A i \in 1..n :
            /\ ret.WrappedLines[i].OrigByteOffset.End <= bytes
            /\ ret.WrappedLines[i].OrigRuneOffset.End <= runes
       /\ WholeInputEmitted =>
            /\ ret.WrappedLines[n].OrigByteOffset.End = bytes
            /\ ret.WrappedLines[n].OrigRuneOffset.End = runes

\* Start <= End on every record of the sequence, the first Start is 0 and
\* every later Start is the End before it
Chained(offsets) ==
  \A i \in DOMAIN offsets :
    /\ offsets[i].Start <= offsets[i].End
    /\ offsets[i].Start = IF i = 1 THEN 0 ELSE offsets[i - 1].End

\* C13: in every returned sequence the byte offsets and the rune offsets are
\* chained: Start <= End, the first Start is 0, every later Start is the
\* previous End.
C13_OffsetsChained ==
  Returned =>
    /\ Chained([i \in DOMAIN ret.WrappedLines |->
                  ret.WrappedLines[i].OrigByteOffset])
    /\ Chained([i \in DOMAIN ret.WrappedLines |->
                  ret.WrappedLines[i].OrigRuneOffset])

\* A sequence of two records or more, one of them ending in a split word, was
\* returned with trimWhitespace = true for an input with an ANSI sequence.
C13_Witness ==
  /\ Returned /\ trimWhitespace /\ Count(str, "ESC") > 0
  /\ Len(ret.WrappedLines) >= 2
  /\ \E i \in DOMAIN ret.WrappedLines : ret.WrappedLines[i].EndsWithSplitWord

\* C14: on every record NotWithinLimit is Width > limit, and it is true only
\* when the input holds a word wider than the limit that may not be split:
\* splitting is off or the word holds a non-breaking space (stated for a tab
\* size of at most limit and the inputs without ANSI sequences).
C14_NotWithinLimitOnlyUnsplit ==
  (Returned /\ tabSize <= limit /\ Count(str, "ESC") = 0) =>
    \A i \in DOMAIN ret.WrappedLines :
      /\ ret.WrappedLines[i].NotWithinLimit <=> ret.WrappedLines[i].Width > limit
      /\ ret.WrappedLines[i].NotWithinLimit =>
           \E w \in Words(str) :
             /\ StringDisplayWidth(w) > limit
             /\ ~splitWord \/ Count(w, "NBSP") > 0

\* A line of the returned text without the hyphens the split wrote
StripHyphen(line) == SelectSeq(line, LAMBDA t : t # "HY")

\* The number of input tokens consumed by the first i lines, when nothing is
\* trimmed and no tab expanded: their tokens and the newlines of their hard
\* breaks
RECURSIVE ConsumedBy(_, _, _)
ConsumedBy(lines, records, i) ==
  IF i = 0 THEN 0
  ELSE ConsumedBy(lines, records, i - 1) + Len(StripHyphen(lines[i]))
         + (IF records[i].IsHardBreak THEN 1 ELSE 0)

\* Line i ends between two tokens of one word of the input s
EndsMidWord(s, p) ==
  /\ p >= 1 /\ p < Len(s)
  /\ ~EndsWord(s[p]) /\ ~EndsWord(s[p + 1])

\* C15: EndsWithSplitWord is true for exactly the records whose line ends
\* in the middle of a word that goes on on the next line (stated for
\* StringWrapSplit with trimWhitespace = false and the inputs without tab
\* and ANSI sequence, where the lines of the text are the input in order).
C15_EndsWithSplitWordExact ==
  (Returned /\ splitWord /\ ~trimWhitespace
     /\ Count(str, "TAB") = 0 /\ Count(str, "ESC") = 0) =>
    LET lines == Lines(ret.text)
    IN \A i \in DOMAIN ret.WrappedLines :
         ret.WrappedLines[i].EndsWithSplitWord <=>
           (~ret.WrappedLines[i].IsHardBreak
              /\ EndsMidWord(str, ConsumedBy(lines, ret.WrappedLines, i)))

\* The records before record i that are hard breaks
HardBreaksBefore(records, i) ==
  Cardinality({j \in 1..(i - 1) : records[j].IsHardBreak})

\* C16: the records with IsHardBreak are as many as the newlines of the
\* input, one for each, and the OrigLineNum of every record is 1 plus the
\* number of hard-break records before it; where the lines of the text are
\* the input in order (nothing trimmed, no tab, no ANSI sequence) the line of
\* a hard-break record ends at a newline of the input.
C16_HardBreakPerNewline ==
  Returned =>
    /\ HardBreaksBefore(ret.WrappedLines, Len(ret.WrappedLines) + 1)
         = Count(str, "NL")
    /\ \A i \in DOMAIN ret.WrappedLines :
         ret.WrappedLines[i].OrigLineNum
           = 1 + HardBreaksBefore(ret.WrappedLines, i)
    /\ (~trimWhitespace /\ Count(str, "TAB") = 0 /\ Count(str, "ESC") = 0) =>
         LET lines == Lines(ret.text)
         IN \A i \in DOMAIN ret.WrappedLines :
              ret.WrappedLines[i].IsHardBreak =>
                str[ConsumedBy(lines, ret.WrappedLines, i)] = "NL"

\* An input with two newlines was returned in hard-break records and at
\* least one record that is none.
C16_Witness ==
  /\ Returned /\ Count(str, "NL") = 2
  /\ \E i, j \in DOMAIN ret.WrappedLines :
       /\ i < j
       /\ ~ret.WrappedLines[i].IsHardBreak
       /\ ret.WrappedLines[j].IsHardBreak

\* C17: SegmentInOrig is 1 on the first record and on every record that
\* follows a hard break, and otherwise one more than on the record before.
C17_SegmentCounts ==
  Returned =>
    \A i \in DOMAIN ret.WrappedLines :
      ret.WrappedLines[i].SegmentInOrig =
        IF i = 1 \/ ret.WrappedLines[i - 1].IsHardBreak THEN 1
        ELSE ret.WrappedLines[i - 1].SegmentInOrig + 1

\* A second segment ended in a hard break and a record follows it.
C17_Witness ==
  /\ Returned
  /\ \E i \in DOMAIN ret.WrappedLines :
       /\ ret.WrappedLines[i].IsHardBreak
       /\ ret.WrappedLines[i].SegmentInOrig = 2
       /\ i < Len(ret.WrappedLines)

\* C18: LastSegmentInOrig is true on exactly the hard-break records and the
\* last record of the returned sequence.
C18_LastSegmentMarks ==
  Returned =>
    \A i \in DOMAIN ret.WrappedLines :
      ret.WrappedLines[i].LastSegmentInOrig <=>
        (ret.WrappedLines[i].IsHardBreak \/ i = Len(ret.WrappedLines))

\* A sequence was returned with a soft record, then a hard break, and a last
\* record that is no hard break.
C18_Witness ==
  /\ Returned
  /\ ~ret.WrappedLines[Len(ret.WrappedLines)].IsHardBreak
  /\ \E i, j \in DOMAIN ret.WrappedLines :
       /\ i < j /\ j < Len(ret.WrappedLines)
       /\ ~ret.WrappedLines[i].IsHardBreak
       /\ ret.WrappedLines[j].IsHardBreak

\* C19: the returned text ends with a newline exactly when the last record
\* is a hard break.
C19_TrailingNewlineIffHardBreak ==
  Returned =>
    ((ret.text # <<>> /\ ret.text[Len(ret.text)] = "NL")
       <=> ret.WrappedLines[Len(ret.WrappedLines)].IsHardBreak)

\* A line, ANSI sequences disregarded, neither begins nor ends with a space
\* (a tab is written as spaces)
NoOuterSpace(line) ==
  LET shown == StripANSI(line)
  IN shown # <<>> => (shown[1] # "SP" /\ shown[Len(shown)] # "SP")

\* C20: with trimWhitespace = true no line of the returned text begins or
\* ends with whitespace, ANSI sequences disregarded.
C20_TrimmedLines ==
  (Returned /\ trimWhitespace) =>
    LET lines == Lines(ret.text)
    IN \A i \in DOMAIN lines : NoOuterSpace(lines[i])

\* The call of the current state made again on the text it returned
ReWrapCall == stringWrap(ret.text, limit, tabSize, trimWhitespace, splitWord)

\* The second call returned the text it was given
ReWrapSame(again) == again.outcome = "returned" /\ again.ret.text = ret.text

\* C21: wrapping the returned text again, with the same limit, tab size,
\* trimWhitespace and split mode, returns that text unchanged (stated for
\* the returned texts that are not empty and do not end in an ANSI sequence).
C21_ReWrapIdempotent ==
  (Returned /\ ret.text # <<>> /\ ret.text[Len(ret.text)] # "ESC") =>
    ReWrapSame(ReWrapCall)

\* A word of letters: a sequence of one or more letter clusters
IsLetterWord(w) == w # <<>> /\ \A i \in 1..Len(w) : w[i] \in {"a", "W"}

\* The position of the tab of an input that has one
TabAt(s) == CHOOSE p \in 1..Len(s) : s[p] = "TAB"

\* The text before and the text after position p
Before(s, p) == SubSeq(s, 1, p - 1)
After(s, p) == SubSeq(s, p + 1, Len(s))

\* s is a word of letters, one tab and a word of letters
WordTabWord(s) ==
  /\ Count(s, "TAB") = 1
  /\ IsLetterWord(Before(s, TabAt(s)))
  /\ IsLetterWord(After(s, TabAt(s)))

\* The tab after a first word w1 wide does not reach its stop within the
\* limit, and a whole tab followed by the second word, w2 wide, does not fit
\* either, while each word and the tab alone do: "hello<TAB>world" at limit 7
\* with tab size 4
TabRegionAlone(w1, w2, lim, t) ==
  /\ w1 <= lim /\ w2 <= lim /\ t <= lim
  /\ w1 + (t - (w1 % t)) > lim
  /\ t + w2 > lim

\* The scenario of hello<TAB>world at limit 7, tab size 4, without splitting
TabSplitCase ==
  /\ Returned /\ ~splitWord /\ WordTabWord(str)
  /\ TabRegionAlone(StringWidth(Before(str, TabAt(str))),
                    StringWidth(After(str, TabAt(str))), limit, tabSize)

\* The three lines: the first word, the expanded tab, the second word
TabRegionLines(s, t) ==
  <<Before(s, TabAt(s)), Repeat("SP", t), After(s, TabAt(s))>>

\* C22 as stated: in the scenario of hello<TAB>world at limit 7 and tab size 4
\* with trimWhitespace = true and without splitting, the expanded tab is on a
\* line of its own between the two words (three lines, three records).
C22_TabRegionOwnLineTrimmed ==
  (TabSplitCase /\ trimWhitespace) =>
    /\ Lines(ret.text) = TabRegionLines(str, tabSize)
    /\ Len(ret.WrappedLines) = 3

\* C22: in the scenario of hello<TAB>world at limit 7 and tab size 4 with
\* trimWhitespace = false and without splitting, the expanded tab is on a
\* line of its own between the two words: three lines and three records, the
\* two breaks soft; with trimWhitespace = true the tab is dropped and the
\* text is the two words on two lines.
C22_TabRegionOwnLine ==
  TabSplitCase =>
    IF trimWhitespace
    THEN /\ Lines(ret.text) = <<Before(str, TabAt(str)), After(str, TabAt(str))>>
         /\ Len(ret.WrappedLines) = 2
    ELSE /\ Lines(ret.text) = TabRegionLines(str, tabSize)
         /\ Len(ret.WrappedLines) = 3
         /\ \A i \in 1..3 : ~ret.WrappedLines[i].IsHardBreak

\* A call without trimming has returned the tab on its own line
C22_Witness ==
  /\ TabSplitCase /\ ~trimWhitespace
  /\ Lines(ret.text) = TabRegionLines(str, tabSize)

\* The last and the first token of a line, "" for an empty line
LastOf(line) == IF line = <<>> THEN "" ELSE line[Len(line)]
FirstOf(line) == IF line = <<>> THEN "" ELSE line[1]

\* The line of record i ends in the hyphen of a split
Hyphenated(lines, i) == i <= Len(lines) /\ LastOf(lines[i]) = "HY"

\* The cluster kept before the hyphen of line i and the cluster that starts
\* line i + 1 are both letters, numbers or marks
CutInWord(lines, i) ==
  /\ i < Len(lines) /\ Len(lines[i]) >= 2
  /\ isWordyGrapheme(lines[i][Len(lines[i]) - 1])
  /\ isWordyGrapheme(FirstOf(lines[i + 1]))

\* Line i was ended by a soft break between two letter, number or mark
\* clusters and has no hyphen
CutWithoutHyphen(lines, records, i) ==
  /\ i < Len(lines) /\ ~records[i].IsHardBreak
  /\ isWordyGrapheme(LastOf(lines[i]))
  /\ isWordyGrapheme(FirstOf(lines[i + 1]))

\* No whitespace of the input can have been dropped at a soft break
NothingTrimmed == ~trimWhitespace \/ (Count(str, "SP") = 0 /\ Count(str, "TAB") = 0)

RECURSIVE ExpandTabs(_, _, _)
ExpandTabs(s, col, t) ==
  IF s = <<>> THEN <<>>
  ELSE IF Head(s) = "TAB"
  THEN Repeat("SP", t - (col % t)) \o ExpandTabs(Tail(s), col + t - (col % t), t)
  ELSE <<Head(s)>> \o ExpandTabs(Tail(s), col + DisplayWidth(Head(s)), t)

\* The input is one line that fits the limit with its tabs expanded, and no
\* whitespace of it is at a place where trimming applies
FitsOneLine ==
  /\ str # <<>> /\ Count(str, "NL") = 0
  /\ ExpandedWidth(str, 0, tabSize) <= limit
  /\ ~trimWhitespace \/ (FirstOf(str) \in Clusters /\ LastOf(str) \in Clusters)

\* The scan loop has just read a tab
AfterTab == pc = "scan" /\ LastOf(str) = "TAB"

\* C24: a tab that fits on the current line is replaced by exactly
\* tabSize - (curLineWidth mod tabSize) spaces, so the line width right after
\* any tab is a multiple of tabSize; with trimWhitespace = false a tab on an
\* empty line gives tabSize spaces; the returned text contains no tab.
C24_TabToNextStop ==
  /\ AfterTab => sm.curLineWidth % tabSize = 0
  /\ (Returned /\ FitsOneLine) => ret.text = ExpandTabs(str, 0, tabSize)
  /\ (Returned /\ ~trimWhitespace /\ LastOf(str) = "TAB"
        /\ (Len(str) = 1 \/ str[Len(str) - 1] = "NL")) =>
       LastOf(Lines(ret.text)) = Repeat("SP", tabSize)
  /\ Returned => Count(ret.text, "TAB") = 0

\* A tab after a one-column letter was replaced by the one space to the next
\* stop of a tab size of two, on a line that went on after it
C24_Witness ==
  /\ Returned /\ FitsOneLine /\ tabSize = 2
  /\ Len(str) = 3 /\ str[1] = "a" /\ str[2] = "TAB"
  /\ ret.text = <<"a", "SP", str[3]>>

\* A line made of spaces only, and not empty
BlankLine(line) == line # <<>> /\ \A i \in 1..Len(line) : line[i] = "SP"

\* The input is a word of letters, a tab whose expansion does not fit after
\* it, and a second word of letters that fits a line
TabDoesNotFit ==
  /\ WordTabWord(str)
  /\ StringWidth(Before(str, TabAt(str))) <= limit
  /\ StringWidth(After(str, TabAt(str))) <= limit
  /\ StringWidth(Before(str, TabAt(str)))
       + (tabSize - (StringWidth(Before(str, TabAt(str))) % tabSize)) > limit

\* C25: with trimWhitespace = true a tab whose expansion does not fit on the
\* current line ends that line with a soft break and then adds no column to
\* the new line: the text is the two words on two lines ('hello', 'world' for
\* hello<TAB>world at limit 7, tab size 4), the tab is counted once in the
\* offsets of the second record, and no line of a trimmed text is made of
\* spaces only.
C25_TrimmedTabDropped ==
  (Returned /\ trimWhitespace) =>
    /\ \A i \in 1..Len(Lines(ret.text)) : ~BlankLine(Lines(ret.text)[i])
    /\ TabDoesNotFit =>
         /\ Lines(ret.text) = <<Before(str, TabAt(str)), After(str, TabAt(str))>>
         /\ Len(ret.WrappedLines) = 2
         /\ ~ret.WrappedLines[1].IsHardBreak
         /\ ret.WrappedLines[1].OrigByteOffset.End = StringByteLen(Before(str, TabAt(str)))
         /\ ret.WrappedLines[2].OrigByteOffset.Start = ret.WrappedLines[1].OrigByteOffset.End
         /\ ret.WrappedLines[2].OrigByteOffset.End = StringByteLen(str)
         /\ ret.WrappedLines[2].Width = StringWidth(After(str, TabAt(str)))

\* A trimming call met a tab that did not fit and returned the two words
C25_Witness ==
  /\ Returned /\ trimWhitespace /\ TabDoesNotFit
  /\ Lines(ret.text) = <<Before(str, TabAt(str)), After(str, TabAt(str))>>

\* The content of a returned text: its lines without the hyphens of the
\* splits, joined again, a newline kept where the record is a hard break
RECURSIVE ContentFrom(_, _, _)
ContentFrom(lines, records, i) ==
  IF i > Len(lines) THEN <<>>
  ELSE StripHyphen(lines[i])
       \o (IF i < Len(lines) /\ i <= Len(records) /\ records[i].IsHardBreak
           THEN <<"NL">> ELSE <<>>)
       \o ContentFrom(lines, records, i + 1)

\* text is the input s with each tab replaced by one to t spaces
RECURSIVE IsExpansionOf(_, _, _)
IsExpansionOf(text, s, t) ==
  IF s = <<>> THEN text = <<>>
  ELSE IF Head(s) = "TAB"
  THEN \E k \in 1..t :
         /\ Len(text) >= k
         /\ SubSeq(text, 1, k) = Repeat("SP", k)
         /\ IsExpansionOf(SubSeq(text, k + 1, Len(text)), Tail(s), t)
  ELSE text # <<>> /\ Head(text) = Head(s) /\ IsExpansionOf(Tail(text), Tail(s), t)

SingleSpaced(s, lim) ==
  /\ s # <<>>
  /\ \A i \in 1..Len(s) : s[i] \in Clusters \cup {"SP"}
  /\ \A i \in 1..Len(Split(s, "SP")) :
       /\ Split(s, "SP")[i] # <<>>
       /\ StringWidth(Split(s, "SP")[i]) <= lim

\* The reference greedy wrapper: word i goes on the current line when the
\* line, a space and the word fit the limit, and starts a new line otherwise
RECURSIVE GreedyFrom(_, _, _, _)
GreedyFrom(ws, i, line, lim) ==
  IF i > Len(ws) THEN <<line>>
  ELSE IF StringWidth(line) + 1 + StringWidth(ws[i]) <= lim
  THEN GreedyFrom(ws, i + 1, line \o <<"SP">> \o ws[i], lim)
  ELSE <<line>> \o GreedyFrom(ws, i + 1, ws[i], lim)

GreedyLines(s, lim) == GreedyFrom(Split(s, "SP"), 2, Split(s, "SP")[1], lim)

\* What a line starts with: its first word, or one space
FirstUnit(line) ==
  IF FirstOf(line) = "SP" THEN <<"SP">> ELSE Split(line, "SP")[1]

\* Every break of the text was needed: what starts line i + 1 did not fit at
\* the end of line i (after the separating space, when it was trimmed)
BreaksNeeded(lines, lim, trim) ==
  \A i \in 1..(Len(lines) - 1) :
    StringWidth(lines[i]) + (IF trim THEN 1 ELSE 0)
      + StringWidth(FirstUnit(lines[i + 1])) > lim

\* The calls C27 is about
GreedyCase == Returned /\ ~splitWord /\ SingleSpaced(str, limit)

\* The lines, each without the whitespace at its end
RightTrimmed(lines) == [i \in 1..Len(lines) |-> TrimRightSpace(lines[i])]

\* C27 as stated: without splitting, for words separated by single spaces
\* and each at most limit wide, the returned lines are those of the reference
\* greedy wrapper, whatever trimWhitespace is (the whitespace at the end of
\* a line left aside).
C27_GreedyLinesAlways ==
  GreedyCase => RightTrimmed(Lines(ret.text)) = GreedyLines(str, limit)

\* C27: without splitting, for words separated by single spaces and each at
\* most limit wide, a soft break is placed only where what follows does not
\* fit the line; with trimWhitespace = true the returned lines are those of
\* the reference greedy wrapper (with trimWhitespace = false the separating
\* space is kept, at the end of a line or at the start of the next one).
C27_GreedyLines ==
  GreedyCase =>
    /\ BreaksNeeded(Lines(ret.text), limit, trimWhitespace)
    /\ \A i \in 1..(Len(ret.WrappedLines) - 1) : ~ret.WrappedLines[i].IsHardBreak
    /\ trimWhitespace => Lines(ret.text) = GreedyLines(str, limit)

\* A trimming call broke the line between two words that fit the limit
\* together but not with the space that separates them
C27_Witness ==
  /\ GreedyCase /\ trimWhitespace
  /\ Len(Split(str, "SP")) = 2
  /\ StringWidth(str) = limit + 1
  /\ Lines(ret.text) = Split(str, "SP")
  /\ Lines(ret.text) = GreedyLines(str, limit)

\* C28: when every newline-delimited line of the input is at most limit
\* columns wide (tabs expanded, ANSI sequences taking none), no break is
\* driven by the width, with or without splitting: every record but the last
\* is a hard break, the returned text has as many lines as the input, and
\* with trimWhitespace = false and no tab it is the input.
C28_FittingLinesUnbroken ==
  (Returned /\ LinesFit(str, limit, tabSize)) =>
    /\ \A i \in 1..(Len(ret.WrappedLines) - 1) : ret.WrappedLines[i].IsHardBreak
    /\ Len(Lines(ret.text)) = Len(Lines(str))
    /\ (~trimWhitespace /\ Count(str, "TAB") = 0) => ret.text = str

\* A call returned an input of two lines that fill the limit, one with a tab
C28_Witness ==
  /\ Returned /\ LinesFit(str, limit, tabSize)
  /\ Len(Lines(str)) = 2 /\ Count(str, "TAB") = 1
  /\ \E i \in 1..2 : ExpandedWidth(Lines(str)[i], 0, tabSize) = limit
  /\ Len(Lines(ret.text)) = 2
  /\ ret.WrappedLines[1].IsHardBreak

\* The line of record i of the returned text is empty
EmptyLineAt(i) == i > Len(Lines(ret.text)) \/ Lines(ret.text)[i] = <<>>

\* C29: a soft break never emits an empty line: every record with
\* IsHardBreak = false is a line of the returned text that is not empty, for
\* every limit and tab size, a tab size above the limit included, and with or
\* without splitting (stated for the inputs without non-breaking space).
C29_SoftLinesNotEmpty ==
  (Returned /\ Count(str, "NBSP") = 0) =>
    \A i \in 1..Len(ret.WrappedLines) :
      ~ret.WrappedLines[i].IsHardBreak => ~EmptyLineAt(i)

\* The input without its carriage returns
StripCR(s) == SelectSeq(s, LAMBDA t : t # "CR")

\* The last record of the returned sequence
LastRecord == ret.WrappedLines[Len(ret.WrappedLines)]

\* The scan loop has just read a carriage return
AfterCR == pc = "scan" /\ LastOf(str) = "CR"

====
